---- MODULE Spec2Model ----
(***************************************************************************)
(* Verification-and-aggregation pipeline of the waste-tracking dashboard   *)
(* (src/app.py) together with the two table schemas the application can    *)
(* meet: the one its own create_tables() builds and the one that           *)
(* src/sample_data_setup.py builds.                                        *)
(*                                                                         *)
(* Units.  Weights are DECIMAL(10,2) columns: the model keeps them as      *)
(* integers counting hundredths of a kilogram.  The per-capita columns are *)
(* DECIMAL(10,4): integers counting ten-thousandths of a kilogram.         *)
(* Timestamps are values of the logical clock `now`; 0 stands for SQL NULL *)
(* in a timestamp column and "NULL" for SQL NULL in a text column.         *)
(***************************************************************************)
EXTENDS Integers, Sequences, FiniteSets, TLC

\* ------------------------------------------------------------------ bounds

\* Number of distinct non-zero input vectors a submitter can enter.
MaxInput == 3

\* Largest value of the logical clock.
MaxClock == 2

\* Largest number of rows the intake adds to each submissions table.
MaxSubs == 1

\* Number of distinct input vectors the intake forms of the whole program
\* are filled with (vectors 1..MaxIntake).
MaxIntake == 1

\* Number of pending collections of one hostel and day that bulk approval
\* is followed over.
MaxBulk == 2

\* Number of rows of pho_edits that are followed.
MaxEdits == 2

\* ------------------------------------------------------- names and domains

NULL == "NULL"

NullTime == 0

\* Hostels with a supervisor account (two of the five).
Hostels == {"2", "10"}

\* The verifier accounts (role 'pho').
Verifiers == {"pho", "pho1"}

\* The one submission date the model follows.
Dates == {"2024-01-10"}

Keys == Dates \X Hostels

StudentFields ==
    {"breakfast_students", "lunch_students", "snacks_students", "dinner_students"}

PeelFields ==
    {"breakfast_vegetable_peels", "lunch_vegetable_peels",
     "snacks_vegetable_peels", "dinner_vegetable_peels"}

NoPeelFields ==
    {"breakfast_student_waste", "breakfast_counter_waste",
     "lunch_student_waste", "lunch_counter_waste",
     "snacks_student_waste", "snacks_counter_waste",
     "dinner_student_waste", "dinner_counter_waste",
     "mess_dry_waste"}

\* The 13 waste components of a mess submission.
MessWasteFields == NoPeelFields \cup PeelFields

MessFields == StudentFields \cup MessWasteFields

\* The 5 waste categories of a hostel submission.
HostelFields ==
    {"dry_waste", "wet_waste", "e_waste", "biomedical_waste", "hazardous_waste"}

\* Columns of master_waste_data written by the mess upsert.
MessGroup ==
    (MessWasteFields \cup
       {"total_students", "total_mess_waste", "total_mess_waste_no_peels",
        "per_capita_mess_waste", "per_capita_mess_waste_no_peels"})

\* Columns of master_waste_data written by the hostel upsert.
HostelGroup == HostelFields \cup {"total_hostel_waste"}

MasterColumns == {"date", "hostel"} \cup MessGroup \cup HostelGroup

\* ------------------------------------------------------------ form inputs

\* A mess form as the submitter or the verifier fills it.  Vector 0 is the
\* empty form, vector 1 the worked example (50 students at breakfast, 3.0 kg
\* student waste, 1.0 kg counter waste, 0.5 kg peels), even vectors have no
\* students but do have waste, the others have every field non-zero.  A
\* vector below 0 has that count of students and that many kg in every field.
MessInput(i) ==
    LET st(m) == IF i % 2 = 0 THEN 0 ELSE ((i * (m + 4)) % 23) + 1
        w(m, c) == IF i = 0 THEN 0 ELSE ((i * (10 * m + 3 * c)) % 97) + 1
        dry == IF i = 0 THEN 0 ELSE ((i * 7) % 97) + 1
    IN  IF i < 0
        THEN [f \in MessFields |-> IF f \in StudentFields THEN i ELSE 100 * i]
        ELSE
        IF i = 1
        THEN [f \in MessFields |->
                CASE f = "breakfast_students" -> 50
                  [] f = "breakfast_student_waste" -> 300
                  [] f = "breakfast_counter_waste" -> 100
                  [] f = "breakfast_vegetable_peels" -> 50
                  [] OTHER -> 0]
        ELSE [breakfast_students |-> st(1),
              breakfast_student_waste |-> w(1, 1),
              breakfast_counter_waste |-> w(1, 2),
              breakfast_vegetable_peels |-> w(1, 3),
              lunch_students |-> st(2),
              lunch_student_waste |-> w(2, 1),
              lunch_counter_waste |-> w(2, 2),
              lunch_vegetable_peels |-> w(2, 3),
              snacks_students |-> st(3),
              snacks_student_waste |-> w(3, 1),
              snacks_counter_waste |-> w(3, 2),
              snacks_vegetable_peels |-> w(3, 3),
              dinner_students |-> st(4),
              dinner_student_waste |-> w(4, 1),
              dinner_counter_waste |-> w(4, 2),
              dinner_vegetable_peels |-> w(4, 3),
              mess_dry_waste |-> dry]

\* A hostel form; vector 0 is the empty form, a vector below 0 has that many
\* kg in every field.
HostelInput(i) ==
    LET w(c) == IF i = 0 THEN 0
                ELSE IF i < 0 THEN 100 * i
                ELSE ((i * (20 * c + 1)) % 89) + 1
    IN  [dry_waste |-> w(1), wet_waste |-> w(2), e_waste |-> w(3),
         biomedical_waste |-> w(4), hazardous_waste |-> w(5)]

Inputs == 0..MaxInput

IntakeInputs == 1..MaxIntake

\* The hostels whose supervisors are logged in to the intake forms.
IntakeHostels == {"2"}

\* The vectors with negative numbers.  The number inputs of the two intake
\* forms carry min_value=0 and never hold one; those of the edit form carry
\* no bound, and the save functions take whatever dict they are handed.
InvalidInputs == {-1}

\* ------------------------------------------------------- pure helpers

\* dict.get(key, default)
Get(data, key, default) == IF key \in DOMAIN data THEN data[key] ELSE default

\* a / b stored in a DECIMAL(10,4) column: the quotient of a weight (in
\* hundredths) by a head count, rounded half up to ten-thousandths.
RoundedQuotient(a, b) == (2 * 100 * a + b) \div (2 * b)

\* ------------------------------------------------- the aggregation engine

\* The derived totals add_to_master_file_mess computes from a record.
total_students(data) ==
    Get(data, "breakfast_students", 0) + Get(data, "lunch_students", 0)
    + Get(data, "snacks_students", 0) + Get(data, "dinner_students", 0)

total_mess_waste(data) ==
    Get(data, "breakfast_student_waste", 0)
    + Get(data, "breakfast_counter_waste", 0)
    + Get(data, "breakfast_vegetable_peels", 0)
    + Get(data, "lunch_student_waste", 0)
    + Get(data, "lunch_counter_waste", 0)
    + Get(data, "lunch_vegetable_peels", 0)
    + Get(data, "snacks_student_waste", 0)
    + Get(data, "snacks_counter_waste", 0)
    + Get(data, "snacks_vegetable_peels", 0)
    + Get(data, "dinner_student_waste", 0)
    + Get(data, "dinner_counter_waste", 0)
    + Get(data, "dinner_vegetable_peels", 0)
    + Get(data, "mess_dry_waste", 0)

\* A total without peels that forgets the mess's dry waste as well.
NoPeelsNoDryWaste(data) ==
    total_mess_waste(data)
    - Get(data, "breakfast_vegetable_peels", 0)
    - Get(data, "lunch_vegetable_peels", 0)
    - Get(data, "snacks_vegetable_peels", 0)
    - Get(data, "dinner_vegetable_peels", 0)
    - Get(data, "mess_dry_waste", 0)

total_mess_waste_no_peels(data) ==
    Get(data, "breakfast_student_waste", 0)
    + Get(data, "breakfast_counter_waste", 0)
    + Get(data, "lunch_student_waste", 0)
    + Get(data, "lunch_counter_waste", 0)
    + Get(data, "snacks_student_waste", 0)
    + Get(data, "snacks_counter_waste", 0)
    + Get(data, "dinner_student_waste", 0)
    + Get(data, "dinner_counter_waste", 0)
    + Get(data, "mess_dry_waste", 0)

\* A per-capita value that counts an empty mess as one student.
PerCapitaOfAtLeastOne(data) ==
    RoundedQuotient(total_mess_waste(data),
                    IF total_students(data) > 0 THEN total_students(data)
                    ELSE 1)

per_capita_mess_waste(data) ==
    IF total_students(data) > 0
    THEN RoundedQuotient(total_mess_waste(data), total_students(data))
    ELSE 0

per_capita_mess_waste_no_peels(data) ==
    IF total_students(data) > 0
    THEN RoundedQuotient(total_mess_waste_no_peels(data), total_students(data))
    ELSE 0

total_hostel_waste(data) ==
    Get(data, "dry_waste", 0) + Get(data, "wet_waste", 0)
    + Get(data, "e_waste", 0) + Get(data, "biomedical_waste", 0)
    + Get(data, "hazardous_waste", 0)

\* The values the mess statement binds, one per column it names.
MessValues(data) ==
    [c \in MessGroup |->
        CASE c = "total_students" -> total_students(data)
          [] c = "total_mess_waste" -> total_mess_waste(data)
          [] c = "total_mess_waste_no_peels" -> total_mess_waste_no_peels(data)
          [] c = "per_capita_mess_waste" -> per_capita_mess_waste(data)
          [] c = "per_capita_mess_waste_no_peels" ->
                per_capita_mess_waste_no_peels(data)
          [] OTHER -> Get(data, c, 0)]

\* The values the hostel statement binds, one per column it names.
HostelValues(data) ==
    [c \in HostelGroup |->
        IF c = "total_hostel_waste" THEN total_hostel_waste(data)
        ELSE Get(data, c, 0)]

\* A new master_waste_data row: the named columns take the bound values,
\* every other column its DEFAULT 0.
NewMasterRow(date, hostel, values) ==
    [c \in MasterColumns |->
        CASE c = "date" -> date
          [] c = "hostel" -> hostel
          [] c \in DOMAIN values -> values[c]
          [] OTHER -> 0]

\* A DO UPDATE SET that rewrites the whole row from the bound values.
ReplaceRow(row, values) == NewMasterRow(row.date, row.hostel, values)

\* A DO UPDATE SET col = col + EXCLUDED.col.
SumRow(row, values) ==
    [c \in MasterColumns |->
        IF c \in DOMAIN values THEN row[c] + values[c] ELSE row[c]]

\* DO UPDATE SET col = EXCLUDED.col for the columns the statement lists.
MergeRow(row, values) ==
    [c \in MasterColumns |-> IF c \in DOMAIN values THEN values[c] ELSE row[c]]

\* Whether a row of the table conflicts with (date, hostel).
Conflicts(table, date, hostel) ==
    \E r \in table : r.date = date /\ r.hostel = hostel

\* INSERT ... ON CONFLICT (date, hostel) DO UPDATE SET ... on a table that
\* has the UNIQUE(date, hostel) constraint.
Upsert(table, date, hostel, values) ==
    IF Conflicts(table, date, hostel)
    THEN {IF r.date = date /\ r.hostel = hostel THEN MergeRow(r, values) ELSE r
            : r \in table}
    ELSE table \cup {NewMasterRow(date, hostel, values)}

\* ------------------------------------------------------------------ state

VARIABLES
    schema,                    \* which script built the tables: "app" | "sample"
    now,                       \* the wall clock, in seconds
    mess_waste_submissions,    \* table: a set of rows
    hostel_waste_submissions,  \* table: a set of rows
    master_waste_data,         \* table: a set of rows
    pho_edits,                 \* table: its rows in insertion order
    session_state,             \* per verifier: verify_record, edit_record
    call,                      \* per verifier: the approve_submission call in progress
    result,                    \* what the last finished handler returned
    last_upsert                \* the last call of the aggregation engine on its own

vars ==
    <<schema, now, mess_waste_submissions, hostel_waste_submissions,
      master_waste_data, pho_edits, session_state, call, result, last_upsert>>

\* b's entries laid over a's.
Merge(a, b) ==
    [k \in DOMAIN a \cup DOMAIN b |-> IF k \in DOMAIN b THEN b[k] ELSE a[k]]

\* get_hostel_from_username, read backwards: the account of a hostel's supervisor.
Supervisor(hostel) ==
    CASE hostel = "2" -> "pho_supervisor_2"
      [] hostel = "10" -> "pho_supervisor_10"
      [] OTHER -> "pho_supervisor"

\* Whether master_waste_data carries UNIQUE(date, hostel): create_tables()
\* declares it, create_all_tables() of the sample-data script does not.
HasUniqueDateHostel == schema = "app"

\* The table a submission_type names.
Table(submission_type) ==
    IF submission_type = "mess_waste"
    THEN mess_waste_submissions
    ELSE hostel_waste_submissions

\* approve_submission's test of which variant a record is.
TypeOf(record_data) ==
    IF "breakfast_students" \in DOMAIN record_data
    THEN "mess_waste"
    ELSE "hostel_waste"

NoCall ==
    [pc |-> "idle", type |-> NULL, id |-> 0, timestamp |-> NullTime,
     aggregated |-> FALSE, fault |-> FALSE]

NoResult == [op |-> NULL, ok |-> FALSE, fault |-> FALSE]

NoUpsert ==
    [type |-> NULL, date |-> NULL, hostel |-> NULL, values |-> [none |-> 0],
     conn |-> FALSE, outcome |-> NULL, repeat |-> FALSE, replaces |-> FALSE]

\* ------------------------------------------- the sample-data deployment

\* A day the sample-data script generates rows for; the forms of later days
\* submit for the days of Dates.
SampleDate == "2024-01-09"

\* generate_mess_submissions: a row older than three days, hence verified
\* by "pho" (ids are SERIAL).
SampleMessRows ==
    {Merge(MessInput(3),
           [submission_id |-> 1, hostel |-> "2", submission_date |-> SampleDate,
            collection_time |-> 1,
            total_students |-> total_students(MessInput(3)),
            total_mess_waste |-> total_mess_waste(MessInput(3)),
            status |-> "verified", submitted_by |-> Supervisor("2"),
            submitted_at |-> 1, verified_by |-> "pho", verified_at |-> 1])}

\* generate_hostel_submissions: a row older than three days.
SampleHostelRows ==
    {Merge(HostelInput(2),
           [submission_id |-> 1, hostel |-> "2", submission_date |-> SampleDate,
            collection_time |-> 1,
            total_waste |-> total_hostel_waste(HostelInput(2)),
            status |-> "verified", submitted_by |-> Supervisor("2"),
            submitted_at |-> 1, verified_by |-> "pho", verified_at |-> 1])}

\* generate_master_data: one row per hostel and generated day, every column
\* filled from values drawn independently of the submissions.
SampleMasterRows ==
    {NewMasterRow(SampleDate, h,
                  Merge(MessValues(MessInput(1)), HostelValues(HostelInput(1))))
        : h \in Hostels}

\* The number of rows each submissions table starts with.
InitialRows == IF schema = "sample" THEN Cardinality(SampleMessRows) ELSE 0

Init ==
    /\ schema \in {"app", "sample"}
    /\ now = 1
    /\ mess_waste_submissions = IF schema = "sample" THEN SampleMessRows ELSE {}
    /\ hostel_waste_submissions = IF schema = "sample" THEN SampleHostelRows ELSE {}
    /\ master_waste_data = IF schema = "sample" THEN SampleMasterRows ELSE {}
    /\ pho_edits = <<>>
    /\ session_state =
          [v \in Verifiers |-> [verify_record |-> <<>>, edit_record |-> <<>>]]
    /\ call = [v \in Verifiers |-> NoCall]
    /\ result = NoResult
    /\ last_upsert = NoUpsert

\* -------------------------------------------------------------- the clock

Tick ==
    /\ now < MaxClock
    /\ now' = now + 1
    /\ UNCHANGED <<schema, mess_waste_submissions, hostel_waste_submissions,
                   master_waste_data, pho_edits, session_state, call, result,
                   last_upsert>>

\* ------------------------------------------------------ submission intake

\* What the mess form hands to the save function.
MessFormData(hostel, date, i) ==
    Merge(MessInput(i),
          [hostel |-> hostel, submission_date |-> date,
           total_students |-> total_students(MessInput(i)),
           total_mess_waste |-> total_mess_waste(MessInput(i))])

\* What the hostel form hands to the save function.
HostelFormData(hostel, date, i) ==
    Merge(HostelInput(i),
          [hostel |-> hostel, submission_date |-> date,
           total_waste |-> total_hostel_waste(HostelInput(i))])

\* An intake that verifies what it stores.
VerifiedOnIntake(username) ==
    [status |-> "verified", submitted_by |-> username, submitted_at |-> now,
     verified_by |-> username, verified_at |-> now]

\* The columns no intake statement names, at their defaults.
IntakeDefaults(username) ==
    [status |-> "pending", submitted_by |-> username, submitted_at |-> now,
     verified_by |-> NULL, verified_at |-> NullTime]

\* Whether a table has room for another submission: subs is the number of
\* submissions followed per table.
Room(table, subs) == Cardinality(table) < InitialRows + subs

\* save_mess_waste_data: the id is the clock second; the statement names
\* image_paths, a column only create_tables() makes, and the id is UNIQUE.
save_mess_waste_data(hostel, date, i) ==
    /\ \E conn \in BOOLEAN :
         mess_waste_submissions' =
            IF /\ conn
               /\ schema = "app"
               /\ \A r \in mess_waste_submissions : r.submission_id # now
            THEN mess_waste_submissions \cup
                   {Merge(Merge(MessFormData(hostel, date, i),
                                IntakeDefaults(Supervisor(hostel))),
                          [submission_id |-> now])}
            ELSE mess_waste_submissions
    /\ UNCHANGED <<schema, now, hostel_waste_submissions, master_waste_data,
                   pho_edits, session_state, call, result, last_upsert>>

\* save_hostel_waste_data
save_hostel_waste_data(hostel, date, i) ==
    /\ \E conn \in BOOLEAN :
         hostel_waste_submissions' =
            IF /\ conn
               /\ schema = "app"
               /\ \A r \in hostel_waste_submissions : r.submission_id # now
            THEN hostel_waste_submissions \cup
                   {Merge(Merge(HostelFormData(hostel, date, i),
                                IntakeDefaults(Supervisor(hostel))),
                          [submission_id |-> now])}
            ELSE hostel_waste_submissions
    /\ UNCHANGED <<schema, now, mess_waste_submissions, master_waste_data,
                   pho_edits, session_state, call, result, last_upsert>>

\* save_mess_waste_data_with_images: the statement names collection_time and
\* returns the SERIAL submission_id, which only the sample-data tables have.
save_mess_waste_data_with_images(hostel, date, i) ==
    /\ \E conn \in BOOLEAN :
         mess_waste_submissions' =
            IF conn /\ schema = "sample"
            THEN mess_waste_submissions \cup
                   {Merge(Merge(MessFormData(hostel, date, i),
                                IntakeDefaults(Supervisor(hostel))),
                          [submission_id |->
                              Cardinality(mess_waste_submissions) + 1,
                           collection_time |-> now])}
            ELSE mess_waste_submissions
    /\ UNCHANGED <<schema, now, hostel_waste_submissions, master_waste_data,
                   pho_edits, session_state, call, result, last_upsert>>

\* save_hostel_waste_data_with_images: total_waste is not among the columns
\* the statement names, so the row keeps the column's DEFAULT 0.
save_hostel_waste_data_with_images(hostel, date, i) ==
    /\ \E conn \in BOOLEAN :
         hostel_waste_submissions' =
            IF conn /\ schema = "sample"
            THEN hostel_waste_submissions \cup
                   {Merge(Merge(HostelFormData(hostel, date, i),
                                IntakeDefaults(Supervisor(hostel))),
                          [submission_id |->
                              Cardinality(hostel_waste_submissions) + 1,
                           collection_time |-> now,
                           total_waste |-> 0])}
            ELSE hostel_waste_submissions
    /\ UNCHANGED <<schema, now, mess_waste_submissions, master_waste_data,
                   pho_edits, session_state, call, result, last_upsert>>

\* -------------------------------------------------- the aggregation calls

\* add_to_master_file_mess: the table after the call.  Without a connection
\* the call returns at once; a statement that raises (ON CONFLICT names a
\* constraint the table lacks) is caught and only reported on the page.
add_to_master_file_mess(data, conn) ==
    IF conn /\ HasUniqueDateHostel
    THEN Upsert(master_waste_data, Get(data, "submission_date", NULL),
                Get(data, "hostel", NULL), MessValues(data))
    ELSE master_waste_data

\* add_to_master_file_hostel: the table after the call.
add_to_master_file_hostel(data, conn) ==
    IF conn /\ HasUniqueDateHostel
    THEN Upsert(master_waste_data, Get(data, "submission_date", NULL),
                Get(data, "hostel", NULL), HostelValues(data))
    ELSE master_waste_data

\* What the statement of an aggregation call did.
Outcome(data, conn) ==
    IF ~(conn /\ HasUniqueDateHostel) THEN "failed"
    ELSE IF Conflicts(master_waste_data, Get(data, "submission_date", NULL),
                      Get(data, "hostel", NULL))
         THEN "updated"
         ELSE "inserted"

\* The note of an aggregation call: what it bound, whether it got a
\* connection, what its statement did, and whether the call before it went
\* through for the same key and group with the same values (repeat) or with
\* other values (replaces).
UpsertNote(type, data, conn) ==
    LET values == IF type = "mess_waste" THEN MessValues(data)
                  ELSE HostelValues(data)
        date == Get(data, "submission_date", NULL)
        hostel == Get(data, "hostel", NULL)
    IN  [type |-> type, date |-> date, hostel |-> hostel, values |-> values,
         conn |-> conn, outcome |-> Outcome(data, conn),
         repeat |-> /\ last_upsert.type = type
                    /\ last_upsert.date = date
                    /\ last_upsert.hostel = hostel
                    /\ last_upsert.values = values
                    /\ last_upsert.outcome \in {"inserted", "updated"},
         replaces |-> /\ last_upsert.type = type
                      /\ last_upsert.date = date
                      /\ last_upsert.hostel = hostel
                      /\ last_upsert.values # values
                      /\ last_upsert.outcome \in {"inserted", "updated"}]

\* ------------------------------------------------ the verifier's dashboard

\* load_pending_data_for_pho: the pending rows of both tables, each tagged
\* with its data_type (read from the tables, not from the five-minute cache).
load_pending_data_for_pho ==
    {Merge(r, [data_type |-> "mess_waste"])
        : r \in {x \in mess_waste_submissions : x.status = "pending"}}
    \cup
    {Merge(r, [data_type |-> "hostel_waste"])
        : r \in {x \in hostel_waste_submissions : x.status = "pending"}}

\* Whether the dashboard shows its lists to verifier v: neither a record to
\* verify nor one to edit is waiting in the session.
ShowsLists(v) ==
    /\ call[v].pc = "idle"
    /\ session_state[v].verify_record = <<>>
    /\ session_state[v].edit_record = <<>>

\* The "Verify Submission" button of a listed record.
ClickVerify(v, rec) ==
    /\ ShowsLists(v)
    /\ rec \in load_pending_data_for_pho
    /\ session_state' = [session_state EXCEPT ![v].verify_record = <<rec>>]
    /\ UNCHANGED <<schema, now, mess_waste_submissions, hostel_waste_submissions,
                   master_waste_data, pho_edits, call, result, last_upsert>>

\* The "Edit & Verify" button of a listed record.
ClickEdit(v, rec) ==
    /\ ShowsLists(v)
    /\ rec \in load_pending_data_for_pho
    /\ session_state' = [session_state EXCEPT ![v].edit_record = <<rec>>]
    /\ UNCHANGED <<schema, now, mess_waste_submissions, hostel_waste_submissions,
                   master_waste_data, pho_edits, call, result, last_upsert>>

\* Whether another verifier's open transaction has updated, and so locked,
\* the row the statement would update.
RowLocked(v, type, id) ==
    \E w \in Verifiers \ {v} :
        /\ call[w].pc \in {"updated", "aggregated"}
        /\ call[w].type = type
        /\ call[w].id = id

\* The stored status of the row a statement addresses ("absent" if none).
StoredStatus(type, id) ==
    IF \E r \in Table(type) : r.submission_id = id
    THEN (CHOOSE r \in Table(type) : r.submission_id = id).status
    ELSE "absent"

\* UPDATE <table> SET <values> WHERE submission_id = id
UpdateWhereId(table, id, values) ==
    {IF r.submission_id = id THEN Merge(r, values) ELSE r : r \in table}

\* approve_submission, up to and including its UPDATE, which stays
\* uncommitted.  Without a connection the call returns False; the page then
\* reports success and forgets the record.
ApproveUpdate(v) ==
    /\ call[v].pc = "idle"
    /\ session_state[v].verify_record # <<>>
    /\ LET rec == session_state[v].verify_record[1]
           type == TypeOf(rec)
           id == rec.submission_id
       IN  \E conn \in BOOLEAN :
             IF conn
             THEN /\ ~RowLocked(v, type, id)
                  /\ call' = [call EXCEPT ![v] =
                        [pc |-> "updated", type |-> type, id |-> id,
                         timestamp |-> now, aggregated |-> FALSE,
                         fault |-> FALSE]]
                  /\ UNCHANGED <<session_state, result>>
             ELSE /\ session_state' =
                        [session_state EXCEPT ![v].verify_record = <<>>]
                  /\ result' = [op |-> "approve", ok |-> FALSE, fault |-> TRUE]
                  /\ UNCHANGED call
    /\ UNCHANGED <<schema, now, mess_waste_submissions, hostel_waste_submissions,
                   master_waste_data, pho_edits, last_upsert>>

\* approve_submission's call of add_to_master_file_mess / _hostel with the
\* record the verifier holds; the call commits on a connection of its own.
ApproveMaster(v) ==
    /\ call[v].pc = "updated"
    /\ LET rec == session_state[v].verify_record[1]
       IN  \E conn \in BOOLEAN :
             /\ master_waste_data' =
                   IF call[v].type = "mess_waste"
                   THEN add_to_master_file_mess(rec, conn)
                   ELSE add_to_master_file_hostel(rec, conn)
             /\ call' = [call EXCEPT ![v].pc = "aggregated",
                                     ![v].aggregated =
                                        Outcome(rec, conn) # "failed",
                                     ![v].fault = ~conn]
    /\ UNCHANGED <<schema, now, mess_waste_submissions, hostel_waste_submissions,
                   pho_edits, session_state, result, last_upsert>>

\* An UPDATE whose status depends on who approves.
StatusByVerifier(v, timestamp) ==
    [status |-> IF v = "pho" THEN "verified" ELSE "rejected",
     verified_by |-> v, verified_at |-> timestamp]

\* The columns approve_submission's UPDATE sets.
Verified(v, timestamp) ==
    [status |-> "verified", verified_by |-> v, verified_at |-> timestamp]

\* approve_submission's commit and return; a commit that raises ends the
\* call with False and the UPDATE undone.
ApproveCommit(v) ==
    /\ call[v].pc = "aggregated"
    /\ LET type == call[v].type
           id == call[v].id
       IN  \E commit \in BOOLEAN :
             /\ mess_waste_submissions' =
                   IF commit /\ type = "mess_waste"
                   THEN UpdateWhereId(mess_waste_submissions, id,
                                      Verified(v, call[v].timestamp))
                   ELSE mess_waste_submissions
             /\ hostel_waste_submissions' =
                   IF commit /\ type = "hostel_waste"
                   THEN UpdateWhereId(hostel_waste_submissions, id,
                                      Verified(v, call[v].timestamp))
                   ELSE hostel_waste_submissions
             /\ result' = [op |-> "approve", ok |-> commit,
                           fault |-> call[v].fault \/ ~commit]
    /\ call' = [call EXCEPT ![v] = NoCall]
    /\ session_state' = [session_state EXCEPT ![v].verify_record = <<>>]
    /\ UNCHANGED <<schema, now, master_waste_data, pho_edits, last_upsert>>

\* ------------------------------------------------------- edit and approve

\* A json.dumps that accepts every dict.
DumpsAnything(data) == TRUE

\* Whether json.dumps accepts a dict: it raises TypeError on the date, time
\* and datetime values the cursor returns for these columns.
JsonSerializable(data) ==
    DOMAIN data \cap {"submission_date", "submitted_at", "collection_time"} = {}

\* Whether save_pho_edit returns True: it needs a connection, both JSON
\* texts, and the edit_reason column its statement names (create_tables()
\* makes it; the sample-data script calls the column reason).
save_pho_edit(original_data, edited_data, conn) ==
    /\ conn
    /\ JsonSerializable(original_data)
    /\ JsonSerializable(edited_data)
    /\ schema = "app"

\* A statement that keeps only the newest edit.
KeepLatestEdit(log, row) == <<row>>

\* INSERT INTO pho_edits
InsertPhoEdit(log, row) == Append(log, row)

\* The row save_pho_edit inserts.
PhoEditRow(submission_id, submission_type, original_data, edited_data, v) ==
    [submission_id |-> submission_id, submission_type |-> submission_type,
     original_data |-> original_data, edited_data |-> edited_data,
     edited_by |-> v, edited_at |-> now]

\* The dict show_edit_form builds from the mess fields of its form.
EditedMessData(i) ==
    Merge(MessInput(i),
          [total_students |-> total_students(MessInput(i)),
           total_mess_waste |-> total_mess_waste(MessInput(i))])

\* The "Save Changes" button.  The first tab's handler takes every waiting
\* edit_record and opens the form with submission_type 'mess_waste'; it then
\* calls save_pho_edit and, only if that returned True,
\* update_submission_with_edits, each on a connection of its own.  Only when
\* both returned True is the edit_record forgotten.
SaveChanges(v, i) ==
    /\ call[v].pc = "idle"
    /\ session_state[v].edit_record # <<>>
    /\ LET rec == session_state[v].edit_record[1]
           id == rec.submission_id
           edited_data == EditedMessData(i)
       IN  \E conn1 \in BOOLEAN, conn2 \in BOOLEAN :
             LET saved == save_pho_edit(rec, edited_data, conn1)
                 updated == saved /\ conn2
             IN  /\ updated => ~RowLocked(v, "mess_waste", id)
                 /\ pho_edits' =
                       IF saved
                       THEN InsertPhoEdit(pho_edits,
                                          PhoEditRow(id, "mess_waste", rec,
                                                     edited_data, v))
                       ELSE pho_edits
                 /\ mess_waste_submissions' =
                       IF updated
                       THEN UpdateWhereId(mess_waste_submissions, id,
                                          Merge(edited_data, Verified(v, now)))
                       ELSE mess_waste_submissions
                 /\ session_state' =
                       IF updated
                       THEN [session_state EXCEPT ![v].edit_record = <<>>]
                       ELSE session_state
                 /\ result' = [op |-> "edit", ok |-> updated,
                               fault |-> ~conn1 \/ (saved /\ ~conn2)]
    /\ UNCHANGED <<schema, now, hostel_waste_submissions, master_waste_data,
                   call, last_upsert>>

\* The "Cancel" button of the edit form.
CancelEdit(v) ==
    /\ call[v].pc = "idle"
    /\ session_state[v].edit_record # <<>>
    /\ session_state' = [session_state EXCEPT ![v].edit_record = <<>>]
    /\ UNCHANGED <<schema, now, mess_waste_submissions, hostel_waste_submissions,
                   master_waste_data, pho_edits, call, result, last_upsert>>

\* ------------------------------------------------------ the whole program

Next ==
    \/ Tick
    \/ \E h \in IntakeHostels, d \in Dates, i \in IntakeInputs :
          Room(mess_waste_submissions, MaxSubs) /\ save_mess_waste_data(h, d, i)
    \/ \E h \in IntakeHostels, d \in Dates, i \in IntakeInputs :
          Room(hostel_waste_submissions, MaxSubs) /\ save_hostel_waste_data(h, d, i)
    \/ \E h \in IntakeHostels, d \in Dates, i \in IntakeInputs :
          Room(mess_waste_submissions, MaxSubs) /\ save_mess_waste_data_with_images(h, d, i)
    \/ \E h \in IntakeHostels, d \in Dates, i \in IntakeInputs :
          Room(hostel_waste_submissions, MaxSubs) /\ save_hostel_waste_data_with_images(h, d, i)
    \/ \E v \in Verifiers : \E rec \in load_pending_data_for_pho :
          ClickVerify(v, rec)
    \/ \E v \in Verifiers : ApproveUpdate(v)
    \/ \E v \in Verifiers : ApproveMaster(v)
    \/ \E v \in Verifiers : ApproveCommit(v)
    \/ \E v \in Verifiers : \E rec \in load_pending_data_for_pho :
          ClickEdit(v, rec)
    \/ \E v \in Verifiers, i \in Inputs : SaveChanges(v, i)
    \/ \E v \in Verifiers : CancelEdit(v)

Spec == Init /\ [][Next]_vars

\* ------------------------------------- the aggregation engine on its own

\* applyVerifiedMessSubmission: add_to_master_file_mess called with a
\* verified mess record.
ApplyMess(h, d, i) ==
    /\ \E conn \in BOOLEAN :
         /\ master_waste_data' =
               add_to_master_file_mess(MessFormData(h, d, i), conn)
         /\ last_upsert' = UpsertNote("mess_waste", MessFormData(h, d, i), conn)
    /\ UNCHANGED <<schema, now, mess_waste_submissions, hostel_waste_submissions,
                   pho_edits, session_state, call, result>>

\* applyVerifiedHostelSubmission: add_to_master_file_hostel called with a
\* verified hostel record.
ApplyHostel(h, d, i) ==
    /\ \E conn \in BOOLEAN :
         /\ master_waste_data' =
               add_to_master_file_hostel(HostelFormData(h, d, i), conn)
         /\ last_upsert' =
               UpsertNote("hostel_waste", HostelFormData(h, d, i), conn)
    /\ UNCHANGED <<schema, now, mess_waste_submissions, hostel_waste_submissions,
                   pho_edits, session_state, call, result>>

NextAgg ==
    \/ \E h \in Hostels, d \in Dates, i \in Inputs : ApplyMess(h, d, i)
    \/ \E h \in Hostels, d \in Dates, i \in Inputs : ApplyHostel(h, d, i)

SpecAgg == Init /\ [][NextAgg]_vars

\* ------------------------------------------------ the forms on their own

\* The intake and edit operations with every dict they can be handed: the
\* functions behind the two intake forms get the forms' numbers, the two
\* save functions no form stands in front of and the edit form get negative
\* numbers as well.
NextForms ==
    \/ Tick
    \/ \E h \in IntakeHostels, d \in Dates, i \in IntakeInputs \cup InvalidInputs :
          Room(mess_waste_submissions, MaxSubs) /\ save_mess_waste_data(h, d, i)
    \/ \E h \in IntakeHostels, d \in Dates, i \in IntakeInputs \cup InvalidInputs :
          Room(hostel_waste_submissions, MaxSubs) /\ save_hostel_waste_data(h, d, i)
    \/ \E h \in IntakeHostels, d \in Dates, i \in IntakeInputs :
          Room(mess_waste_submissions, MaxSubs) /\ save_mess_waste_data_with_images(h, d, i)
    \/ \E h \in IntakeHostels, d \in Dates, i \in IntakeInputs :
          Room(hostel_waste_submissions, MaxSubs) /\ save_hostel_waste_data_with_images(h, d, i)
    \/ \E v \in Verifiers : \E rec \in load_pending_data_for_pho :
          ClickEdit(v, rec)
    \/ \E v \in Verifiers, i \in Inputs \cup InvalidInputs : SaveChanges(v, i)
    \/ \E v \in Verifiers : CancelEdit(v)

SpecForms == Init /\ [][NextForms]_vars

\* ------------------------------------------- several submissions a table

\* The four intake functions, called by the supervisors of every hostel and
\* followed for one submission more per table than in Next, so that two
\* submissions can fall into one second of the clock.
NextIds ==
    \/ Tick
    \/ \E h \in Hostels, d \in Dates, i \in 1..MaxInput :
          Room(mess_waste_submissions, MaxSubs + 1) /\ save_mess_waste_data(h, d, i)
    \/ \E h \in Hostels, d \in Dates, i \in 1..MaxInput :
          Room(hostel_waste_submissions, MaxSubs + 1) /\ save_hostel_waste_data(h, d, i)
    \/ \E h \in Hostels, d \in Dates, i \in 1..MaxInput :
          Room(mess_waste_submissions, MaxSubs + 1) /\ save_mess_waste_data_with_images(h, d, i)
    \/ \E h \in Hostels, d \in Dates, i \in 1..MaxInput :
          Room(hostel_waste_submissions, MaxSubs + 1) /\ save_hostel_waste_data_with_images(h, d, i)

SpecIds == Init /\ [][NextIds]_vars

\* ------------------------------------------------------- the edit log

\* save_pho_edit called with dicts json.dumps accepts: the numbers of a
\* form, without the date and time columns a fetched row carries.
LogEdit(v, submission_id, i, j) ==
    /\ Len(pho_edits) < MaxEdits
    /\ \E conn \in BOOLEAN :
         pho_edits' =
            IF save_pho_edit(MessInput(i), EditedMessData(j), conn)
            THEN InsertPhoEdit(pho_edits,
                               PhoEditRow(submission_id, "mess_waste",
                                          MessInput(i), EditedMessData(j), v))
            ELSE pho_edits
    /\ UNCHANGED <<schema, now, mess_waste_submissions,
                   hostel_waste_submissions, master_waste_data, session_state,
                   call, result, last_upsert>>

\* The operations that name pho_edits, beside intake and the edit form.
NextLog ==
    \/ NextForms
    \/ \E v \in Verifiers, i \in IntakeInputs, j \in IntakeInputs :
          LogEdit(v, InitialRows + 1, i, j)

SpecLog == Init /\ [][NextLog]_vars

\* --------------------------------------- approval of a record without a row

\* Records whose submission_id no row carries: SERIAL ids start at 1 and the
\* other ids are seconds of the clock.  A page holds one when the tables were
\* dropped and rebuilt under it; approve_submission takes it as it takes
\* any dict.
StaleRecords ==
    {Merge(Merge(MessFormData(h, d, i), IntakeDefaults(Supervisor(h))),
           [submission_id |-> 0, data_type |-> "mess_waste"])
        : h \in IntakeHostels, d \in Dates, i \in 1..MaxInput}
    \cup
    {Merge(Merge(HostelFormData(h, d, i), IntakeDefaults(Supervisor(h))),
           [submission_id |-> 0, data_type |-> "hostel_waste"])
        : h \in IntakeHostels, d \in Dates, i \in 1..MaxInput}

\* The state after construction, with such records waiting to be verified.
InitStale ==
    /\ schema \in {"app", "sample"}
    /\ now = 1
    /\ mess_waste_submissions = IF schema = "sample" THEN SampleMessRows ELSE {}
    /\ hostel_waste_submissions = IF schema = "sample" THEN SampleHostelRows ELSE {}
    /\ master_waste_data = IF schema = "sample" THEN SampleMasterRows ELSE {}
    /\ pho_edits = <<>>
    /\ session_state \in
          [Verifiers ->
              {[verify_record |-> q, edit_record |-> <<>>]
                  : q \in {<<>>} \cup {<<r>> : r \in StaleRecords}}]
    /\ call = [v \in Verifiers |-> NoCall]
    /\ result = NoResult
    /\ last_upsert = NoUpsert

NextApprove ==
    \/ Tick
    \/ \E v \in Verifiers : ApproveUpdate(v)
    \/ \E v \in Verifiers : ApproveMaster(v)
    \/ \E v \in Verifiers : ApproveCommit(v)

SpecStale == InitStale /\ [][NextApprove]_vars

\* ---------------------------------------------------------- bulk approval

\* The pending collections of hostel "2" for one day, as the hostel form's
\* intake left them: on the tables of create_tables() the id is the second
\* of submission, on the sample-data tables the next SERIAL value.
BulkRows(d, inputs) ==
    {Merge(Merge(HostelFormData("2", d, inputs[k]),
                 [status |-> "pending", submitted_by |-> Supervisor("2"),
                  submitted_at |-> k, verified_by |-> NULL,
                  verified_at |-> NullTime]),
           IF schema = "app"
           THEN [submission_id |-> k]
           ELSE [submission_id |-> InitialRows + k, collection_time |-> k,
                 total_waste |-> 0])
        : k \in 1..MaxBulk}

InitBulk ==
    /\ schema \in {"app", "sample"}
    /\ now = MaxBulk
    /\ mess_waste_submissions = IF schema = "sample" THEN SampleMessRows ELSE {}
    /\ \E d \in Dates, inputs \in [1..MaxBulk -> 1..MaxInput] :
          hostel_waste_submissions =
             (IF schema = "sample" THEN SampleHostelRows ELSE {})
             \cup BulkRows(d, inputs)
    /\ master_waste_data = IF schema = "sample" THEN SampleMasterRows ELSE {}
    /\ pho_edits = <<>>
    /\ session_state =
          [v \in Verifiers |-> [verify_record |-> <<>>, edit_record |-> <<>>]]
    /\ call = [v \in Verifiers |-> NoCall]
    /\ result = NoResult
    /\ last_upsert = NoUpsert

\* What can go wrong in one approve_submission call: nothing; no connection
\* for the call itself; no connection inside the aggregation call; the
\* commit of the UPDATE raises.
ApproveFaults == {"none", "connect", "aggregate", "commit"}

\* One whole approve_submission call on tables t = [mess, hostel, master,
\* attempted, outcomes]: the tables after it, the id it was called for and
\* the value it returned.
ApproveOne(t, rec, v, fault) ==
    LET type == TypeOf(rec)
        id == rec.submission_id
        ok == fault \in {"none", "aggregate"}
        upserts == fault \in {"none", "commit"} /\ HasUniqueDateHostel
    IN  [mess |-> IF ok /\ type = "mess_waste"
                  THEN UpdateWhereId(t.mess, id, Verified(v, now))
                  ELSE t.mess,
         hostel |-> IF ok /\ type = "hostel_waste"
                    THEN UpdateWhereId(t.hostel, id, Verified(v, now))
                    ELSE t.hostel,
         master |-> IF upserts
                    THEN Upsert(t.master, Get(rec, "submission_date", NULL),
                                Get(rec, "hostel", NULL),
                                IF type = "mess_waste" THEN MessValues(rec)
                                ELSE HostelValues(rec))
                    ELSE t.master,
         attempted |-> Append(t.attempted, id),
         outcomes |-> Append(t.outcomes, ok)]

\* A call that lets every failure escape to approve_all_collections.
RaisesOnFailure(fault) == fault \in {"connect", "commit"}

\* Whether an approve_submission call lets a failure escape to its caller:
\* without a connection it returns False, and its except branch catches
\* every Exception of its statements.
Raises(fault) == FALSE

\* The loop of approve_all_collections from its k-th record on.
RECURSIVE ApprovedInOrder(_, _, _, _, _)
ApprovedInOrder(records, faults, v, k, t) ==
    IF k > Len(records) \/ (k > 1 /\ Raises(faults[k - 1]))
    THEN t
    ELSE ApprovedInOrder(records, faults, v, k + 1,
                         ApproveOne(t, records[k], v, faults[k]))

\* The lists a verifier can hand to bulk approval: the pending collections
\* of one hostel and day, in any order.
BulkLists ==
    UNION {
      LET group == {r \in load_pending_data_for_pho :
                       /\ r.data_type = "hostel_waste"
                       /\ r.hostel = key[2]
                       /\ r.submission_date = key[1]}
      IN  {records \in [1..Cardinality(group) -> group] :
              \A a, b \in 1..Cardinality(group) :
                 a # b => records[a] # records[b]}
      : key \in Keys}

\* approve_all_collections, with the page's report after it.  The function
\* returns nothing (the empty list stands for it); the page reports success
\* whatever happened.  attempted and outcomes note the calls the loop made
\* and what each returned.
approve_all_collections(v, records) ==
    /\ call[v].pc = "idle"
    /\ records # <<>>
    /\ \E faults \in [1..Len(records) -> ApproveFaults] :
         LET t == ApprovedInOrder(records, faults, v, 1,
                     [mess |-> mess_waste_submissions,
                      hostel |-> hostel_waste_submissions,
                      master |-> master_waste_data,
                      attempted |-> <<>>, outcomes |-> <<>>])
         IN  /\ mess_waste_submissions' = t.mess
             /\ hostel_waste_submissions' = t.hostel
             /\ master_waste_data' = t.master
             /\ result' = [op |-> "approve_all", returned |-> <<>>,
                           reported |-> "success",
                           attempted |-> t.attempted, outcomes |-> t.outcomes,
                           fault |-> \E k \in 1..Len(records) :
                                        faults[k] # "none"]
    /\ UNCHANGED <<schema, now, pho_edits, session_state, call, last_upsert>>

NextBulk ==
    \E v \in Verifiers : \E records \in BulkLists :
        approve_all_collections(v, records)

SpecBulk == InitBulk /\ [][NextBulk]_vars

\* The master table that the statement of add_to_master_file_mess leaves
\* when it runs on `table` with a connection.
MessApplied(table, data) ==
    IF HasUniqueDateHostel
    THEN Upsert(table, Get(data, "submission_date", NULL),
                Get(data, "hostel", NULL), MessValues(data))
    ELSE table

\* The same for add_to_master_file_hostel.
HostelApplied(table, data) ==
    IF HasUniqueDateHostel
    THEN Upsert(table, Get(data, "submission_date", NULL),
                Get(data, "hostel", NULL), HostelValues(data))
    ELSE table

\* ------------------------------------------ properties of the aggregation

\* The rows of a master table for (date, hostel).
RowsFor(table, date, hostel) ==
    {r \in table : r.date = date /\ r.hostel = hostel}

\* Every row of `before` for (date, hostel) is still there in `after` with
\* the columns of `group` as they were.
GroupKept(before, after, date, hostel, group) ==
    \A r \in RowsFor(before, date, hostel) :
        \E q \in RowsFor(after, date, hostel) : \A c \in group : q[c] = r[c]

\* Whether a row holds a value in some column of a group.
Holds(row, group) == \E c \in group : row[c] # 0

\* C5: applying a verified mess submission for (D, H) leaves every
\* hostel-group column of the master row (D, H) as it was (total_hostel_waste,
\* dry_waste, wet_waste, e_waste, biomedical_waste, hazardous_waste),
\* whatever the values of the mess submission.
MessUpsertKeepsHostelGroup ==
    [][\A h \in Hostels, d \in Dates, i \in Inputs :
          \/ GroupKept(master_waste_data, master_waste_data', d, h, HostelGroup)
          \/ ~ApplyMess(h, d, i)
      ]_vars

\* A mess upsert has updated a row that holds hostel-group values.
MessUpsertOverHostelValues ==
    /\ last_upsert.type = "mess_waste"
    /\ last_upsert.outcome = "updated"
    /\ \E r \in RowsFor(master_waste_data, last_upsert.date, last_upsert.hostel) :
          /\ Holds(r, HostelGroup)
          /\ \A c \in MessGroup : r[c] = last_upsert.values[c]
          /\ r.total_mess_waste > 0

\* C6: applying a verified hostel submission for (D, H) leaves every
\* mess-group column of the master row (D, H) as it was (total_students, the
\* twelve meal-wise waste columns, mess_dry_waste, both mess totals and both
\* per-capita columns); only the six hostel-group columns change.
HostelUpsertKeepsMessGroup ==
    [][\A h \in Hostels, d \in Dates, i \in Inputs :
          \/ GroupKept(master_waste_data, master_waste_data', d, h, MessGroup)
          \/ ~ApplyHostel(h, d, i)
      ]_vars

\* A hostel upsert has updated a row that holds mess-group values.
HostelUpsertOverMessValues ==
    /\ last_upsert.type = "hostel_waste"
    /\ last_upsert.outcome = "updated"
    /\ \E r \in RowsFor(master_waste_data, last_upsert.date, last_upsert.hostel) :
          /\ Holds(r, MessGroup)
          /\ \A c \in HostelGroup : r[c] = last_upsert.values[c]
          /\ r.total_hostel_waste > 0

\* C8: when no master row exists for (D, H) and the engine has its
\* connection, applying a verified submission of either variant creates
\* exactly one row for (D, H), with that variant's group populated from the
\* submission and every column of the other group at its default 0.
FirstUpsertCreatesRow ==
    [][\A h \in Hostels, d \in Dates, i \in Inputs :
          /\ ( /\ RowsFor(master_waste_data, d, h) = {}
               /\ last_upsert'.conn
               /\ ApplyMess(h, d, i) )
             => /\ Cardinality(RowsFor(master_waste_data', d, h)) = 1
                /\ \A r \in RowsFor(master_waste_data', d, h) :
                      /\ \A c \in MessGroup :
                            r[c] = MessValues(MessFormData(h, d, i))[c]
                      /\ ~Holds(r, HostelGroup)
          /\ ( /\ RowsFor(master_waste_data, d, h) = {}
               /\ last_upsert'.conn
               /\ ApplyHostel(h, d, i) )
             => /\ Cardinality(RowsFor(master_waste_data', d, h)) = 1
                /\ \A r \in RowsFor(master_waste_data', d, h) :
                      /\ \A c \in HostelGroup :
                            r[c] = HostelValues(HostelFormData(h, d, i))[c]
                      /\ ~Holds(r, MessGroup)
      ]_vars

\* C9: applying the same verified mess submission twice in a row leaves the
\* master table as the first application left it: the same set of rows and
\* the same value in every column; the same holds for a hostel submission.
UpsertIdempotent ==
    [][\A h \in Hostels, d \in Dates, i \in Inputs :
          (last_upsert'.repeat /\ (ApplyMess(h, d, i) \/ ApplyHostel(h, d, i)))
             => master_waste_data' = master_waste_data
      ]_vars

\* The same submission has been applied twice in a row, both statements
\* went through, and it carries waste.
UpsertRepeated ==
    /\ last_upsert.repeat
    /\ last_upsert.outcome = "updated"
    /\ \E c \in DOMAIN last_upsert.values : last_upsert.values[c] # 0

\* --------------------------------------- properties of the whole program

\* The stored row a statement addresses.
StoredRow(type, id) == CHOOSE r \in Table(type) : r.submission_id = id

\* Whether a master table holds, for the (date, hostel) of a record, a row
\* whose columns of the record's group are the derived totals of `data`.
Aggregated(table, type, date, hostel, data) ==
    \E m \in RowsFor(table, date, hostel) :
        IF type = "mess_waste"
        THEN \A c \in MessGroup : m[c] = MessValues(data)[c]
        ELSE \A c \in HostelGroup : m[c] = HostelValues(data)[c]

\* C1: of the approval attempts on one submission id, by whichever
\* verifiers read it as pending, exactly one succeeds: an attempt succeeds,
\* and the aggregation engine is invoked, only for a submission that is
\* still pending, so the upsert is applied at most once per submission.
ApprovedAtMostOnce ==
    [][\A v \in Verifiers :
          /\ (ApproveMaster(v) /\ call'[v].aggregated)
                => StoredStatus(call[v].type, call[v].id) = "pending"
          /\ (ApproveCommit(v) /\ result'.ok)
                => StoredStatus(call[v].type, call[v].id) = "pending"
          /\ \A i \in Inputs :
                (SaveChanges(v, i) /\ result'.ok)
                   => StoredStatus("mess_waste",
                         session_state[v].edit_record[1].submission_id)
                      = "pending"
      ]_vars

\* C2: a direct approve of a submission whose status is not pending fails
\* and leaves its status, verified_by, verified_at and the master table as
\* they were.
ApproveOfNonPendingFails ==
    [][\A v \in Verifiers :
          StoredStatus(call[v].type, call[v].id) \in {"verified", "rejected"}
             => /\ ApproveMaster(v) => master_waste_data' = master_waste_data
                /\ ApproveCommit(v) =>
                      /\ ~result'.ok
                      /\ mess_waste_submissions' = mess_waste_submissions
                      /\ hostel_waste_submissions' = hostel_waste_submissions
      ]_vars

\* C3: an edit-then-approve of a pending mess submission for (D, H) that
\* meets no datastore fault succeeds, and after it the master row (D, H)
\* exists and holds in its mess group the derived totals of the edited
\* values.
EditedTotalsReachMaster ==
    [][\A v \in Verifiers, i \in Inputs :
          ( /\ SaveChanges(v, i)
            /\ ~result'.fault
            /\ session_state[v].edit_record[1].data_type = "mess_waste"
            /\ StoredStatus("mess_waste",
                  session_state[v].edit_record[1].submission_id) = "pending" )
          => /\ result'.ok
             /\ Aggregated(master_waste_data', "mess_waste",
                           session_state[v].edit_record[1].submission_date,
                           session_state[v].edit_record[1].hostel,
                           EditedMessData(i))
      ]_vars

\* Whether a table holds the row `id` verified with the edited values.
VerifiedWithEdits(table, id, edited_data) ==
    \E r \in table :
        /\ r.submission_id = id
        /\ r.status = "verified"
        /\ \A f \in DOMAIN edited_data : r[f] = edited_data[f]

ApprovedTotalsReachMaster ==
    [][\A v \in Verifiers :
          ( /\ ApproveCommit(v)
            /\ result'.ok
            /\ StoredStatus(call[v].type, call[v].id) = "pending" )
          => LET row == StoredRow(call[v].type, call[v].id)
             IN  Aggregated(master_waste_data', call[v].type,
                            row.submission_date, row.hostel, row)
      ]_vars

\* C10: the master table holds at most one row per (date, hostel), and the
\* table the application runs against carries the unique constraint on
\* (date, hostel) that the merge-upsert names.
UniquelyKeyedByDateHostel ==
    /\ \A r \in master_waste_data :
          Cardinality(RowsFor(master_waste_data, r.date, r.hostel)) = 1
    /\ HasUniqueDateHostel

\* C11: when a mess approval and a hostel approval for the same (D, H) have
\* both gone through, in whatever interleaving, the master table has exactly
\* one row for (D, H) and it holds both the mess-group values of the mess
\* submission and the hostel-group values of the hostel submission.
BothApprovalsInMaster ==
    \A m \in mess_waste_submissions, h \in hostel_waste_submissions :
        ( /\ m.status = "verified"
          /\ h.status = "verified"
          /\ m.submission_date \in Dates
          /\ m.submission_date = h.submission_date
          /\ m.hostel = h.hostel )
        => /\ Cardinality(RowsFor(master_waste_data, m.submission_date,
                                  m.hostel)) = 1
           /\ Aggregated(master_waste_data, "mess_waste", m.submission_date,
                         m.hostel, m)
           /\ Aggregated(master_waste_data, "hostel_waste", h.submission_date,
                         h.hostel, h)

\* C12: an edit-then-approve of a pending submission that meets no
\* datastore fault succeeds and adds exactly one Edit Record, tagged with
\* the submission's id and variant, whose original_data are the field values
\* stored for the submission just before the edit and whose edited_data are
\* the values the verifier supplied.
EditRecordWritten ==
    [][\A v \in Verifiers, i \in Inputs :
          ( /\ SaveChanges(v, i)
            /\ ~result'.fault
            /\ StoredStatus(session_state[v].edit_record[1].data_type,
                  session_state[v].edit_record[1].submission_id) = "pending" )
          => LET rec == session_state[v].edit_record[1]
                 stored == StoredRow(rec.data_type, rec.submission_id)
             IN  /\ result'.ok
                 /\ Len(pho_edits') = Len(pho_edits) + 1
                 /\ LET e == pho_edits'[Len(pho_edits')]
                    IN  /\ e.submission_id = rec.submission_id
                        /\ e.submission_type = rec.data_type
                        /\ \A f \in (MessFields \cup HostelFields)
                                    \cap DOMAIN stored :
                              e.original_data[f] = stored[f]
                        /\ e.edited_data = EditedMessData(i)
      ]_vars

\* C13: if the aggregation call of an approval fails (no connection, or the
\* upsert statement raises), the master table is left as it was and the
\* failure reaches the caller of approve: the approval does not report
\* success and the submission is not left verified.
EngineFailureSurfaced ==
    [][\A v \in Verifiers :
          /\ (ApproveMaster(v) /\ ~call'[v].aggregated)
                => master_waste_data' = master_waste_data
          /\ (ApproveCommit(v) /\ ~call[v].aggregated)
                => /\ ~result'.ok
                   /\ mess_waste_submissions' = mess_waste_submissions
                   /\ hostel_waste_submissions' = hostel_waste_submissions
      ]_vars

\* C14: status is monotone.  The only status changes that ever occur are
\* pending to verified and pending to rejected; a submission that is verified
\* or rejected keeps that status value whatever operation follows.
StatusMonotone ==
    [][\A type \in {"mess_waste", "hostel_waste"} :
          \A r \in Table(type) :
             StoredStatus(type, r.submission_id)' # r.status
                => /\ r.status = "pending"
                   /\ StoredStatus(type, r.submission_id)'
                         \in {"verified", "rejected"}
      ]_vars

\* An approval has issued its UPDATE on a submission that is already
\* verified, by another verifier.
ReapprovalUnderWay ==
    \E v \in Verifiers :
        /\ call[v].pc = "aggregated"
        /\ StoredStatus(call[v].type, call[v].id) = "verified"
        /\ StoredRow(call[v].type, call[v].id).verified_by # v

\* C16: bulk approve returns to its caller, for every submission of the
\* list, whether that submission's approval succeeded or failed, and success
\* is not reported when at least one approval failed.
BulkReportsEachOutcome ==
    [][\A v \in Verifiers : \A records \in BulkLists :
          approve_all_collections(v, records)
             => /\ result'.returned = result'.outcomes
                /\ (\E k \in 1..Len(result'.outcomes) : ~result'.outcomes[k])
                      => result'.reported # "success"
      ]_vars

InvalidInputRefused ==
    [][ /\ \A h \in IntakeHostels, d \in Dates, i \in InvalidInputs :
             (save_mess_waste_data(h, d, i) \/ save_hostel_waste_data(h, d, i))
                => UNCHANGED <<mess_waste_submissions, hostel_waste_submissions,
                               master_waste_data, pho_edits>>
        /\ \A v \in Verifiers, i \in InvalidInputs :
             SaveChanges(v, i)
                => /\ UNCHANGED <<mess_waste_submissions,
                                  hostel_waste_submissions,
                                  master_waste_data, pho_edits>>
                   /\ ~result'.ok ]_vars

\* C19: approving a record whose submission_id no row of the store carries
\* writes nothing, neither a submission row nor a master row, and does not
\* report success.
UnknownIdRefused ==
    [][ \A v \in Verifiers :
          (/\ session_state[v].verify_record # <<>>
           /\ StoredStatus(TypeOf(session_state[v].verify_record[1]),
                           session_state[v].verify_record[1].submission_id)
                 = "absent")
          => /\ ApproveMaster(v) => UNCHANGED master_waste_data
             /\ ApproveCommit(v)
                  => /\ UNCHANGED <<mess_waste_submissions,
                                    hostel_waste_submissions>>
                     /\ ~result'.ok ]_vars

\* C20: every row an intake function stores, for mess or hostel, with or
\* without images, has status pending and neither a verifier nor a time of
\* verification, and the intake leaves master_waste_data as it was.
IntakeStoresPending ==
    [][ \A h \in IntakeHostels, d \in Dates, i \in IntakeInputs \cup InvalidInputs :
          (\/ save_mess_waste_data(h, d, i)
           \/ save_hostel_waste_data(h, d, i)
           \/ save_mess_waste_data_with_images(h, d, i)
           \/ save_hostel_waste_data_with_images(h, d, i))
          => /\ UNCHANGED master_waste_data
             /\ \A r \in (mess_waste_submissions' \ mess_waste_submissions)
                          \cup (hostel_waste_submissions'
                                  \ hostel_waste_submissions) :
                   /\ r.status = "pending"
                   /\ r.verified_by = NULL
                   /\ r.verified_at = NullTime ]_vars

\* Both forms have stored a submission: a mess row and a hostel row are
\* waiting, as their intake left them.
IntakeLeftPending ==
    /\ \E r \in mess_waste_submissions :
          r.status = "pending" /\ r.submitted_at > 0 /\ r.verified_by = NULL
    /\ \E r \in hostel_waste_submissions :
          r.status = "pending" /\ r.submitted_at > 0 /\ r.verified_by = NULL

\* C21: the stored submissions of a variant have pairwise distinct ids, and
\* a submit is stored whatever was stored before it, one of the same second
\* included: on the tables a save function works on, it can always add its
\* row.
SubmitsStoredUnderDistinctIds ==
    /\ \A t \in {mess_waste_submissions, hostel_waste_submissions} :
          \A r1 \in t, r2 \in t : r1.submission_id = r2.submission_id => r1 = r2
    /\ \A h \in Hostels, d \in Dates, i \in 1..MaxInput :
          /\ (schema = "app" /\ Room(mess_waste_submissions, MaxSubs + 1))
                => ENABLED (/\ save_mess_waste_data(h, d, i)
                            /\ mess_waste_submissions' # mess_waste_submissions)
          /\ (schema = "app" /\ Room(hostel_waste_submissions, MaxSubs + 1))
                => ENABLED (/\ save_hostel_waste_data(h, d, i)
                            /\ hostel_waste_submissions'
                                  # hostel_waste_submissions)
          /\ (schema = "sample" /\ Room(mess_waste_submissions, MaxSubs + 1))
                => ENABLED (/\ save_mess_waste_data_with_images(h, d, i)
                            /\ mess_waste_submissions' # mess_waste_submissions)
          /\ (schema = "sample" /\ Room(hostel_waste_submissions, MaxSubs + 1))
                => ENABLED (/\ save_hostel_waste_data_with_images(h, d, i)
                            /\ hostel_waste_submissions'
                                  # hostel_waste_submissions)

\* C22: every stored submission's totals agree with its component fields:
\* a mess row's total_students is the sum of its four student counts and its
\* total_mess_waste the sum of its thirteen waste fields, a hostel row's
\* total_waste the sum of its five categories.
StoredTotalsAgree ==
    /\ \A r \in mess_waste_submissions :
          /\ r.total_students = total_students(r)
          /\ r.total_mess_waste = total_mess_waste(r)
    /\ \A r \in hostel_waste_submissions :
          r.total_waste = total_hostel_waste(r)

\* C23: the edit log is append-only: no step changes or removes a row of
\* pho_edits, so the rows written for a submission never become fewer.
EditLogAppendOnly ==
    [][ /\ Len(pho_edits') >= Len(pho_edits)
        /\ \A k \in 1..Len(pho_edits) : pho_edits'[k] = pho_edits[k] ]_vars

\* Two edits of one submission are in the log, the second written at a later
\* second than the first, which is still there.
EditLogKeptRecord ==
    /\ Len(pho_edits) >= 2
    /\ pho_edits[1].submission_id = pho_edits[2].submission_id
    /\ pho_edits[1].edited_at < pho_edits[2].edited_at

\* C24: for a mess submission none of whose waste fields is negative, the
\* total without peels the engine computes is at most the total, and the
\* two differ by the sum of the four vegetable-peel fields; this holds of the
\* values every mess call binds and of every row of master_waste_data.
NoPeelsTotalBelowTotal ==
    /\ last_upsert.type = "mess_waste"
          => LET x == last_upsert.values
             IN  /\ x.total_mess_waste_no_peels <= x.total_mess_waste
                 /\ x.total_mess_waste - x.total_mess_waste_no_peels
                       = x.breakfast_vegetable_peels + x.lunch_vegetable_peels
                         + x.snacks_vegetable_peels + x.dinner_vegetable_peels
    /\ \A r \in master_waste_data :
          /\ r.total_mess_waste_no_peels <= r.total_mess_waste
          /\ r.total_mess_waste - r.total_mess_waste_no_peels
                = r.breakfast_vegetable_peels + r.lunch_vegetable_peels
                  + r.snacks_vegetable_peels + r.dinner_vegetable_peels

\* A mess submission with peels and with dry waste has been applied and its
\* statement went through.
MessWithPeelsApplied ==
    /\ last_upsert.type = "mess_waste"
    /\ last_upsert.outcome # "failed"
    /\ last_upsert.values.lunch_vegetable_peels > 0
    /\ last_upsert.values.mess_dry_waste > 0
    /\ last_upsert.values.total_mess_waste_no_peels
          < last_upsert.values.total_mess_waste

\* C25: after a mess submission was applied and its statement went through,
\* the master row of its day and hostel holds per-capita values of 0 when
\* the submission's student counts sum to 0, whatever its waste, and
\* otherwise each total divided by the count, to the nearest
\* ten-thousandth of a kg.
PerCapitaByStudentCount ==
    (last_upsert.type = "mess_waste" /\ last_upsert.outcome # "failed")
       => /\ RowsFor(master_waste_data, last_upsert.date,
                     last_upsert.hostel) # {}
          /\ \A m \in RowsFor(master_waste_data, last_upsert.date,
                              last_upsert.hostel) :
             LET n == last_upsert.values.total_students
                 Near(q, t) == /\ 2 * n * q <= 2 * 100 * t + n
                               /\ 2 * n * q > 2 * 100 * t - n
             IN  /\ m.total_students = n
                 /\ n = 0 => /\ m.per_capita_mess_waste = 0
                             /\ m.per_capita_mess_waste_no_peels = 0
                 /\ n > 0 => /\ Near(m.per_capita_mess_waste,
                                      m.total_mess_waste)
                             /\ Near(m.per_capita_mess_waste_no_peels,
                                      m.total_mess_waste_no_peels)

\* A mess submission without students but with waste has been applied and
\* its statement went through.
WasteWithoutStudentsApplied ==
    /\ last_upsert.type = "mess_waste"
    /\ last_upsert.outcome # "failed"
    /\ last_upsert.values.total_students = 0
    /\ last_upsert.values.total_mess_waste > 0
    /\ last_upsert.values.total_mess_waste_no_peels > 0

\* C26: whenever no approval is under way, every group of a master row that
\* the aggregation calls of approvals filled holds the derived values of a
\* submission for that day and hostel whose status is verified; no group
\* holds values of a submission that is still pending.  (The rows of the
\* days the sample-data script generated are left aside.)
AggregatedOnlyFromVerified ==
    (\A v \in Verifiers : call[v].pc = "idle")
       => \A m \in master_waste_data :
             m.date \in Dates
                => /\ Holds(m, MessGroup)
                        => \E r \in mess_waste_submissions :
                              /\ r.status = "verified"
                              /\ r.submission_date = m.date
                              /\ r.hostel = m.hostel
                              /\ \A c \in MessGroup : m[c] = MessValues(r)[c]
                   /\ Holds(m, HostelGroup)
                        => \E r \in hostel_waste_submissions :
                              /\ r.status = "verified"
                              /\ r.submission_date = m.date
                              /\ r.hostel = m.hostel
                              /\ \A c \in HostelGroup :
                                    m[c] = HostelValues(r)[c]

\* C27: when two different submissions of one variant for the same day and
\* hostel are applied one after the other and both statements go through,
\* the master row's group of that variant holds the derived values of the
\* second: each value is replaced, none is added to the first one's.
LastApprovalReplaces ==
    (last_upsert.replaces /\ last_upsert.outcome # "failed")
       => /\ RowsFor(master_waste_data, last_upsert.date,
                     last_upsert.hostel) # {}
          /\ \A m \in RowsFor(master_waste_data, last_upsert.date,
                              last_upsert.hostel) :
                \A c \in DOMAIN last_upsert.values :
                   m[c] = last_upsert.values[c]

\* A hostel collection has been applied over another one of the same day
\* and hostel that had other weights; it carried waste, and the row holds
\* its total.
SecondCollectionApplied ==
    /\ last_upsert.type = "hostel_waste"
    /\ last_upsert.replaces
    /\ last_upsert.outcome = "updated"
    /\ last_upsert.values.total_hostel_waste > 0
    /\ \E m \in RowsFor(master_waste_data, last_upsert.date,
                         last_upsert.hostel) :
          m.total_hostel_waste = last_upsert.values.total_hostel_waste

\* C28: saving the edit form that "Edit & Verify" opened on a pending hostel
\* submission, with no datastore fault, writes an Edit Record tagged
\* hostel_waste for that submission and updates that row of
\* hostel_waste_submissions and no other; it writes no Edit Record tagged
\* mess_waste and leaves mess_waste_submissions alone.
HostelEditStaysHostel ==
    [][\A v \in Verifiers, i \in Inputs :
          ( /\ SaveChanges(v, i)
            /\ ~result'.fault
            /\ session_state[v].edit_record[1].data_type = "hostel_waste"
            /\ StoredStatus("hostel_waste",
                  session_state[v].edit_record[1].submission_id) = "pending" )
          => LET id == session_state[v].edit_record[1].submission_id
             IN  /\ Len(pho_edits') = Len(pho_edits) + 1
                 /\ pho_edits'[Len(pho_edits')].submission_type = "hostel_waste"
                 /\ pho_edits'[Len(pho_edits')].submission_id = id
                 /\ StoredStatus("hostel_waste", id)' = "verified"
                 /\ \A r \in hostel_waste_submissions :
                       r.submission_id # id => r \in hostel_waste_submissions'
                 /\ UNCHANGED mess_waste_submissions
      ]_vars

\* C29: a submission has a verifier and a time of verification exactly when
\* its status is verified, and no step changes the verifier, the time of
\* verification or any other field of a submission that is verified.
VerificationWrittenOnce ==
    /\ [](\A r \in mess_waste_submissions \cup hostel_waste_submissions :
            /\ (r.status = "verified") <=> (r.verified_by # NULL)
            /\ (r.status = "verified") <=> (r.verified_at # NullTime))
    /\ [][ /\ \A r \in mess_waste_submissions :
                r.status = "verified" => r \in mess_waste_submissions'
           /\ \A r \in hostel_waste_submissions :
                r.status = "verified" => r \in hostel_waste_submissions'
         ]_vars

\* C30: from every state of the master table, applying a mess submission
\* and then a hostel submission of the same day and hostel leaves the same
\* table, equal in every column of every row, as applying the hostel
\* submission first and the mess submission second.
MessAndHostelCommute ==
    \A h \in Hostels, d \in Dates, i \in Inputs, j \in Inputs :
       HostelApplied(MessApplied(master_waste_data, MessFormData(h, d, i)),
                     HostelFormData(h, d, j))
       = MessApplied(HostelApplied(master_waste_data, HostelFormData(h, d, j)),
                     MessFormData(h, d, i))

\* A hostel submission has been applied over a row that already held a mess
\* submission's values: the row of that day and hostel has both groups.
BothGroupsApplied ==
    /\ schema = "app"
    /\ last_upsert.type = "hostel_waste"
    /\ last_upsert.outcome = "updated"
    /\ \E m \in RowsFor(master_waste_data, last_upsert.date,
                         last_upsert.hostel) :
          /\ Holds(m, MessGroup)
          /\ Holds(m, HostelGroup)
          /\ m.total_hostel_waste = last_upsert.values.total_hostel_waste

====
